---- MODULE Spec2Model ----
(***************************************************************************)
(* Model of bbc_crawler.py: the BBCNewsCrawler class (fetch,               *)
(* parse_articles, fetch_rss) and main, which tries the RSS feed, falls    *)
(* back to the homepage HTML on any exception, and prints the first        *)
(* `limit` records.                                                        *)
(*                                                                         *)
(* Text is modelled by TLA+ strings; str.strip, str.startswith, urljoin    *)
(* and the list slice are operators computed as Python computes them.      *)
(* The network, feedparser and BeautifulSoup are the environment: what     *)
(* they return is chosen from bounded sets.                                *)
(***************************************************************************)
EXTENDS Integers, Sequences, FiniteSets, TLC

(* ------------------------------ bounds --------------------------------- *)
MaxAnchors == 3      \* anchors in one homepage document
MaxEntries == 3      \* entries in one feed
MaxLimit   == 3      \* --limit ranges over -MaxLimit .. MaxLimit + 1

(* ----------------------------- constants ------------------------------- *)
BBC_NEWS_URL == "https://www.bbc.com/news"

Whitespace == {" ", "\t", "\n"}

Min(a, b) == IF a < b THEN a ELSE b
Max(a, b) == IF a > b THEN a ELSE b

(* ------------------------- string functions ---------------------------- *)
RECURSIVE LStrip(_)
LStrip(s) ==
    IF Len(s) = 0 THEN s
    ELSE IF SubSeq(s, 1, 1) \in Whitespace THEN LStrip(SubSeq(s, 2, Len(s)))
    ELSE s

RECURSIVE RStrip(_)
RStrip(s) ==
    IF Len(s) = 0 THEN s
    ELSE IF SubSeq(s, Len(s), Len(s)) \in Whitespace
         THEN RStrip(SubSeq(s, 1, Len(s) - 1))
    ELSE s

\* str.strip()
Strip(s) == RStrip(LStrip(s))

\* str.startswith(p)
StartsWith(s, p) == Len(s) >= Len(p) /\ SubSeq(s, 1, Len(p)) = p

\* index of the first "/" of s at or after position i, Len(s) + 1 if none
RECURSIVE FindSlash(_, _)
FindSlash(s, i) ==
    IF i > Len(s) THEN Len(s) + 1
    ELSE IF SubSeq(s, i, i) = "/" THEN i
    ELSE FindSlash(s, i + 1)

\* scheme and network location of an absolute https URL
Origin(base) == SubSeq(base, 1, FindSlash(base, Len("https://") + 1) - 1)

\* urllib.parse.urljoin for the two kinds of href that pass the filter:
\* a URL with the base's scheme and a host is returned as it is,
\* a root-relative path replaces the path of the base.
urljoin(base, href) ==
    IF StartsWith(href, "https://") THEN href
    ELSE IF StartsWith(href, "/") THEN Origin(base) \o href
    ELSE base

\* dict.get(key, default)
Get(d, key, default) == IF key \in DOMAIN d THEN d[key] ELSE default

\* list[: n + 1], an off-by-one stop
SliceOneMore(s, n) ==
    LET stop == IF n + 1 < 0 THEN Max(Len(s) + n + 1, 0) ELSE Min(n + 1, Len(s))
    IN  SubSeq(s, 1, stop)

\* list[:n]
Slice(s, n) ==
    LET stop == IF n < 0 THEN Max(Len(s) + n, 0) ELSE Min(n, Len(s))
    IN  SubSeq(s, 1, stop)

BoundedSeq(S, n) == UNION {[1..k -> S] : k \in 0..n}

(* --------------------------- environment ------------------------------- *)
Limits == (0 - MaxLimit)..(MaxLimit + 1)

\* anchors BeautifulSoup finds: href attribute and text content
Anchors ==
    { [href |-> "/news/a",                    text |-> "A"],
      [href |-> "/news/a",                    text |-> ""],
      [href |-> "https://www.bbc.com/news/a", text |-> "B "],
      [href |-> " /news/b ",                  text |-> " C"],
      [href |-> "/news/b",                    text |-> " \n"],
      [href |-> "/sport",                     text |-> "S"],
      [href |-> "https://evil.com/news",      text |-> "E"],
      [href |-> "/new",                       text |-> "N"],
      [href |-> " ",                          text |-> "A"] }

Docs == BoundedSeq(Anchors, MaxAnchors)

\* entries feedparser returns; a key may be absent
Entries ==
    { [title |-> "A", link |-> "https://www.bbc.com/news/a",
       published |-> "P", summary |-> "S"],
      [title |-> " B ", link |-> " https://www.bbc.com/news/b\n"],
      [title |-> "C", link |-> "https://www.bbc.com/news/a", summary |-> "T"],
      [title |-> " \t", link |-> "https://www.bbc.com/news/c",
       published |-> "P"],
      [title |-> "D"] }

Feeds == BoundedSeq(Entries, MaxEntries)

(* ------------------------------- state --------------------------------- *)
VARIABLES
    pc,            \* position of main
    limit,         \* args.limit
    bozo,          \* feed.bozo
    entries,       \* feed.entries
    ei,            \* position of the loop of fetch_rss
    items,         \* items of fetch_rss
    links,         \* soup.select("a[href]")
    li,            \* position of the loop of parse_articles
    seen_urls,     \* seen_urls of parse_articles
    articles,      \* articles of parse_articles
    main_articles, \* articles of main
    stdout,        \* the lists printed so far
    feedFetches,   \* requests made by feedparser.parse
    homeGets,      \* requests made by session.get
    feedRaised     \* the feed attempt raised

vars == <<pc, limit, bozo, entries, ei, items, links, li, seen_urls,
          articles, main_articles, stdout, feedFetches, homeGets, feedRaised>>

feedVars == <<bozo, entries, ei, items>>
htmlVars == <<links, li, seen_urls, articles>>
netVars  == <<feedFetches, homeGets>>

Init ==
    /\ pc = "START"
    /\ limit = 20
    /\ bozo = FALSE
    /\ entries = <<>>
    /\ ei = 1
    /\ items = <<>>
    /\ links = <<>>
    /\ li = 1
    /\ seen_urls = {}
    /\ articles = <<>>
    /\ main_articles = <<>>
    /\ stdout = <<>>
    /\ feedFetches = 0
    /\ homeGets = 0
    /\ feedRaised = FALSE

(* ------------------------------ main ----------------------------------- *)
\* main: parse_args and the construction of the crawler
ParseArgs ==
    /\ pc = "START"
    /\ \E l \in Limits : limit' = l
    /\ pc' = "TRY_FEED"
    /\ UNCHANGED <<feedVars, htmlVars, netVars, main_articles, stdout,
                   feedRaised>>

(* ---------------------------- fetch_rss -------------------------------- *)
\* the feed is parsed a second time before giving up
FeedParseRaisesRetried ==
    /\ pc = "TRY_FEED"
    /\ feedFetches' = feedFetches + 2
    /\ feedRaised' = TRUE
    /\ pc' = "TRY_HTML"
    /\ UNCHANGED <<limit, feedVars, htmlVars, homeGets, main_articles, stdout>>

\* feedparser.parse raises (a failure it does not turn into bozo)
FeedParseRaises ==
    /\ pc = "TRY_FEED"
    /\ feedFetches' = feedFetches + 1
    /\ feedRaised' = TRUE
    /\ pc' = "TRY_HTML"
    /\ UNCHANGED <<limit, feedVars, htmlVars, homeGets, main_articles, stdout>>

\* feedparser.parse returns a feed
FeedParsed ==
    /\ pc = "TRY_FEED"
    /\ feedFetches' = feedFetches + 1
    /\ \E b \in BOOLEAN : bozo' = b
    /\ \E es \in Feeds : entries' = es
    /\ pc' = "FEED_PARSED"
    /\ UNCHANGED <<limit, ei, items, htmlVars, homeGets, main_articles, stdout,
                   feedRaised>>

\* bozo is not tested: the entries of a malformed feed are read
FeedBozoIgnored ==
    /\ pc = "FEED_PARSED"
    /\ bozo
    /\ items' = <<>>
    /\ ei' = 1
    /\ pc' = "FEED_LOOP"
    /\ UNCHANGED <<limit, bozo, entries, htmlVars, netVars, main_articles,
                   stdout, feedRaised>>

\* bozo is set: fetch_rss raises ValueError and its frame is dropped
FeedBozo ==
    /\ pc = "FEED_PARSED"
    /\ bozo
    /\ entries' = <<>>
    /\ feedRaised' = TRUE
    /\ pc' = "TRY_HTML"
    /\ UNCHANGED <<limit, bozo, ei, items, htmlVars, netVars, main_articles,
                   stdout>>

\* bozo is not set: the loop starts
FeedWellFormed ==
    /\ pc = "FEED_PARSED"
    /\ ~bozo
    /\ items' = <<>>
    /\ ei' = 1
    /\ pc' = "FEED_LOOP"
    /\ UNCHANGED <<limit, bozo, entries, htmlVars, netVars, main_articles,
                   stdout, feedRaised>>

\* the record fetch_rss appends
FeedRecord(entry, title, link) ==
    [title     |-> title,
     url       |-> link,
     published |-> Get(entry, "published", ""),
     summary   |-> Get(entry, "summary", "")]

\* only an entry with neither title nor link is skipped
EntrySkippedBoth(title, link) == title = "" /\ link = ""

\* the entry is skipped
EntrySkipped(title, link) == title = "" \/ link = ""

\* one iteration of the loop of fetch_rss
FeedEntry ==
    /\ pc = "FEED_LOOP"
    /\ ei <= Len(entries)
    /\ LET entry == entries[ei]
           title == Strip(Get(entry, "title", ""))
           link  == Strip(Get(entry, "link", ""))
       IN  items' = IF EntrySkipped(title, link) THEN items
                    ELSE Append(items, FeedRecord(entry, title, link))
    /\ ei' = ei + 1
    /\ UNCHANGED <<pc, limit, bozo, entries, htmlVars, netVars, main_articles,
                   stdout, feedRaised>>

\* an empty feed result is taken for a failure
FeedReturnEmptyFallsBack ==
    /\ pc = "FEED_LOOP"
    /\ ei > Len(entries)
    /\ IF items = <<>>
       THEN /\ pc' = "TRY_HTML"
            /\ UNCHANGED <<main_articles, stdout>>
       ELSE /\ main_articles' = items
            /\ stdout' = Append(stdout, Slice(items, limit))
            /\ pc' = "OUTPUT"
    /\ UNCHANGED <<limit, feedVars, htmlVars, netVars, feedRaised>>

\* fetch_rss returns; main prints the slice
FeedReturn ==
    /\ pc = "FEED_LOOP"
    /\ ei > Len(entries)
    /\ main_articles' = items
    /\ stdout' = Append(stdout, Slice(items, limit))
    /\ pc' = "OUTPUT"
    /\ UNCHANGED <<limit, feedVars, htmlVars, netVars, feedRaised>>

(* ------------------------- fetch, parse_articles ----------------------- *)
\* the handler runs; session.get or raise_for_status raises
FetchFails ==
    /\ pc = "TRY_HTML"
    /\ homeGets' = homeGets + 1
    /\ pc' = "FATAL"
    /\ UNCHANGED <<limit, feedVars, htmlVars, feedFetches, main_articles,
                   stdout, feedRaised>>

\* the handler runs; fetch returns the page and parse_articles starts
FetchOk ==
    /\ pc = "TRY_HTML"
    /\ homeGets' = homeGets + 1
    /\ \E doc \in Docs : links' = doc
    /\ li' = 1
    /\ seen_urls' = {}
    /\ articles' = <<>>
    /\ pc' = "PARSE_LOOP"
    /\ UNCHANGED <<limit, feedVars, feedFetches, main_articles, stdout,
                   feedRaised>>

\* only the root-relative prefix is accepted
AcceptedHrefRelativeOnly(href) == StartsWith(href, "/news")

\* the href filter of parse_articles
AcceptedHref(href) ==
    StartsWith(href, "/news") \/ StartsWith(href, "https://www.bbc.com/news")

\* a record of the feed's shape
HtmlRecordFourKeys(title, url) ==
    [title |-> title, url |-> url, published |-> "", summary |-> ""]

\* the record parse_articles appends
HtmlRecord(title, url) == [title |-> title, url |-> url]

\* the seen test is left out
LinkRejectedNoDedup(href, url, seen) == href = "" \/ ~AcceptedHref(href)

\* the anchor is dropped before its text is read
LinkRejected(href, url, seen) ==
    href = "" \/ ~AcceptedHref(href) \/ url \in seen

\* an anchor without text is kept
TitleMissingNever(title) == FALSE

\* the anchor has no text
TitleMissing(title) == title = ""

\* the url is marked as seen before the title is tested
SeenAfterBeforeTitle(seen, url, title) == seen \cup {url}

\* seen_urls after an anchor that was not dropped
SeenAfter(seen, url, title) ==
    IF TitleMissing(title) THEN seen ELSE seen \cup {url}

\* one iteration of the loop of parse_articles
ParseLink ==
    /\ pc = "PARSE_LOOP"
    /\ li <= Len(links)
    /\ LET link  == links[li]
           href  == Strip(link.href)
           url   == urljoin(BBC_NEWS_URL, href)
           title == Strip(link.text)
       IN  IF LinkRejected(href, url, seen_urls)
           THEN UNCHANGED <<seen_urls, articles>>
           ELSE /\ seen_urls' = SeenAfter(seen_urls, url, title)
                /\ articles' = IF TitleMissing(title) THEN articles
                               ELSE Append(articles, HtmlRecord(title, url))
    /\ li' = li + 1
    /\ UNCHANGED <<pc, limit, feedVars, links, netVars, main_articles, stdout,
                   feedRaised>>

\* parse_articles returns; main prints the slice
ParseReturn ==
    /\ pc = "PARSE_LOOP"
    /\ li > Len(links)
    /\ main_articles' = articles
    /\ stdout' = Append(stdout, Slice(articles, limit))
    /\ pc' = "OUTPUT"
    /\ UNCHANGED <<limit, feedVars, htmlVars, netVars, feedRaised>>

(* --------------------------- specification ----------------------------- *)
Next ==
    \/ ParseArgs
    \/ FeedParseRaises
    \/ FeedParsed
    \/ FeedBozo
    \/ FeedWellFormed
    \/ FeedEntry
    \/ FeedReturn
    \/ FetchFails
    \/ FetchOk
    \/ ParseLink
    \/ ParseReturn

Spec == Init /\ [][Next]_vars

\* the interpreter runs main to its end
FairSpec == Spec /\ WF_vars(Next)

TypeOK ==
    /\ pc \in {"START", "TRY_FEED", "FEED_PARSED", "FEED_LOOP", "TRY_HTML",
               "PARSE_LOOP",
               "OUTPUT", "FATAL"}
    /\ limit \in Limits \cup {20}
    /\ bozo \in BOOLEAN
    /\ ei \in 1..(MaxEntries + 1)
    /\ li \in 1..(MaxAnchors + 1)
    /\ Len(stdout) <= 1
(* ------------------------------ claims --------------------------------- *)
Done == pc \in {"OUTPUT", "FATAL"}

\* the list main printed
Printed == stdout[1]

\* C1: with a limit that is zero or negative, the sequence main passes to
\* output is empty, whatever records are available.
C1_NonPositiveLimitPrintsNothing ==
    (pc = "OUTPUT" /\ limit <= 0) => Printed = <<>>

\* C2 as stated: a run makes exactly one network request in total, the feed
\* fetch or the homepage GET, never both.
C2_ExactlyOneRequest ==
    Done => feedFetches + homeGets = 1

\* C2 amended: every finished run made the feed fetch exactly once, and made
\* the homepage GET exactly once if the feed attempt raised and not at all
\* otherwise: one request when the feed succeeds, two when main falls back.
C2_OneFeedFetchAndGetIffRaised ==
    Done => /\ feedFetches = 1
            /\ homeGets = (IF feedRaised THEN 1 ELSE 0)

C2_FallbackRunFinished ==
    pc = "OUTPUT" /\ feedRaised /\ feedFetches = 1 /\ homeGets = 1

\* the state of the orchestrator that a position of main belongs to
Phase(p) ==
    CASE p = "START" -> "START"
      [] p \in {"TRY_FEED", "FEED_PARSED", "FEED_LOOP"} -> "TRY_FEED"
      [] p \in {"TRY_HTML", "PARSE_LOOP"} -> "TRY_HTML"
      [] p = "OUTPUT" -> "OUTPUT"
      [] p = "FATAL" -> "FATAL"

PhaseEdges ==
    { <<"START", "TRY_FEED">>,
      <<"TRY_FEED", "OUTPUT">>, <<"TRY_FEED", "TRY_HTML">>,
      <<"TRY_HTML", "OUTPUT">>, <<"TRY_HTML", "FATAL">> }

C3_Step ==
    /\ Phase(pc') # Phase(pc) => <<Phase(pc), Phase(pc')>> \in PhaseEdges
    /\ Phase(pc') = "TRY_HTML" /\ Phase(pc) # "TRY_HTML" => feedRaised'
    /\ feedRaised' /\ ~feedRaised => Phase(pc) = "TRY_FEED" /\ pc' = "TRY_HTML"
    /\ pc' = "FATAL" => pc = "TRY_HTML" /\ homeGets' = homeGets + 1
    /\ Done => pc' = pc

C3_Inv ==
    /\ feedFetches = (IF pc = "START" \/ pc = "TRY_FEED" THEN 0 ELSE 1)
    /\ homeGets = (IF pc \in {"PARSE_LOOP", "FATAL"} \/ (pc = "OUTPUT" /\ feedRaised)
                   THEN 1 ELSE 0)
    /\ Phase(pc) = "TRY_HTML" => feedRaised
    /\ pc \in {"FEED_PARSED", "FEED_LOOP"} => ~feedRaised
    /\ pc = "FATAL" => stdout = <<>>
    /\ pc = "OUTPUT" => Len(stdout) = 1
    /\ ~Done => stdout = <<>>

\* C3: a run goes START -> TRY_FEED -> {OUTPUT | TRY_HTML} -> {OUTPUT | FATAL}
\* without cycle or retry: the feed is attempted once, the HTML branch at most
\* once and exactly when the feed attempt raised (an empty feed result does
\* not trigger it), the run ends in OUTPUT or FATAL, and FATAL is entered only
\* from the HTML branch, with nothing printed.
C3_StateMachine ==
    /\ []C3_Inv
    /\ [][C3_Step]_vars
    /\ <>[]Done

C3_FatalReached ==
    pc = "FATAL" /\ feedRaised /\ homeGets = 1 /\ stdout = <<>>

\* C4: with a limit N >= 0 the output has length min(N, available) and is the
\* first min(N, available) records in their original order.
C4_NonNegativeLimitPrefix ==
    (pc = "OUTPUT" /\ limit >= 0) =>
        LET n == Min(limit, Len(main_articles))
        IN  /\ Len(Printed) = n
            /\ \A k \in 1..n : Printed[k] = main_articles[k]

C4_TruncatedAndWhole ==
    /\ pc = "OUTPUT"
    /\ limit = 1
    /\ Len(main_articles) = 3
    /\ Printed = <<main_articles[1]>>

(* anchors of the document that parse_articles has gone through *)
Processed == 1..(li - 1)

\* the anchor's trimmed href has one of the two accepted prefixes
HasNewsPrefix(j) ==
    LET h == Strip(links[j].href)
    IN  \/ Len(h) >= 5 /\ SubSeq(h, 1, 5) = "/news"
        \/ Len(h) >= 24 /\ SubSeq(h, 1, 24) = "https://www.bbc.com/news"

AnchorUrl(j)  == urljoin(BBC_NEWS_URL, Strip(links[j].href))
AnchorText(j) == Strip(links[j].text)

\* the first processed anchor with an accepted href that resolves to u
IsFirstAnchorOf(j, u) ==
    /\ j \in Processed /\ HasNewsPrefix(j) /\ AnchorUrl(j) = u
    /\ \A k \in 1..(j - 1) : ~(HasNewsPrefix(k) /\ AnchorUrl(k) = u)

\* the first processed anchor with an accepted href and some text that
\* resolves to u
IsFirstTextedAnchorOf(j, u) ==
    /\ j \in Processed /\ HasNewsPrefix(j) /\ AnchorUrl(j) = u
    /\ AnchorText(j) # ""
    /\ \A k \in 1..(j - 1) :
          ~(HasNewsPrefix(k) /\ AnchorUrl(k) = u /\ AnchorText(k) # "")

RecordsWithUrl(u) == {k \in 1..Len(articles) : articles[k].url = u}

\* C5 as stated: a record's title is the text of the first anchor whose
\* accepted href resolves to its url, and when that first anchor has no text
\* no record for the url is emitted at all.
C5_FirstAnchorWins ==
    \A j \in Processed :
        IsFirstAnchorOf(j, AnchorUrl(j)) =>
            IF AnchorText(j) = ""
            THEN RecordsWithUrl(AnchorUrl(j)) = {}
            ELSE \E k \in 1..Len(articles) :
                    /\ RecordsWithUrl(AnchorUrl(j)) = {k}
                    /\ articles[k].title = AnchorText(j)

\* C5 amended: a record's title is the text of the first anchor that has a
\* non-empty trimmed text and whose accepted href resolves to its url; every
\* later anchor resolving to that url is discarded even when its text
\* differs, and an earlier anchor without text does not block the url.
C5_FirstTextedAnchorWins ==
    /\ \A j \in Processed :
          IsFirstTextedAnchorOf(j, AnchorUrl(j)) =>
              \E k \in 1..Len(articles) :
                  /\ RecordsWithUrl(AnchorUrl(j)) = {k}
                  /\ articles[k].title = AnchorText(j)
    /\ \A k \in 1..Len(articles) :
          \E j \in Processed :
              /\ IsFirstTextedAnchorOf(j, articles[k].url)
              /\ articles[k].title = AnchorText(j)

C5_EmptyThenTwoTexts ==
    /\ pc = "OUTPUT"
    /\ Len(links) = 3
    /\ HasNewsPrefix(1) /\ AnchorText(1) = ""
    /\ HasNewsPrefix(2) /\ AnchorUrl(2) = AnchorUrl(1) /\ AnchorText(2) # ""
    /\ HasNewsPrefix(3) /\ AnchorUrl(3) = AnchorUrl(1)
    /\ AnchorText(3) \notin {"", AnchorText(2)}
    /\ Len(articles) = 1
    /\ articles[1].title = AnchorText(2)

\* the anchor a record was made from: the first one with its url and title
ProducedAt(r) ==
    CHOOSE j \in Processed :
        /\ HasNewsPrefix(j) /\ AnchorUrl(j) = r.url /\ AnchorText(j) = r.title
        /\ \A k \in 1..(j - 1) :
              ~(HasNewsPrefix(k) /\ AnchorUrl(k) = r.url
                /\ AnchorText(k) = r.title)

\* C6: after every iteration of the loop of parse_articles and at its return,
\* every record has a non-empty title and url, the urls are pairwise distinct,
\* the set of urls equals seen_urls, and the records are in the order in
\* which they first occur in the document.
C6_ParseArticlesInvariant ==
    /\ \A k \in 1..Len(articles) :
          /\ articles[k].title # ""
          /\ articles[k].url # ""
          /\ \E j \in Processed :
                /\ HasNewsPrefix(j) /\ AnchorUrl(j) = articles[k].url
                /\ AnchorText(j) = articles[k].title
    /\ \A k, l \in 1..Len(articles) :
          /\ k # l => articles[k].url # articles[l].url
          /\ k < l => ProducedAt(articles[k]) < ProducedAt(articles[l])
    /\ {articles[k].url : k \in 1..Len(articles)} = seen_urls

C6_TwoRecordsMidLoop ==
    /\ pc = "PARSE_LOOP"
    /\ li = 3 /\ Len(links) = 3
    /\ Len(articles) = 2
    /\ Cardinality(seen_urls) = 2

C7_Step ==
    (pc = "PARSE_LOOP" /\ li <= Len(links)) =>
        LET url   == AnchorUrl(li)
            title == AnchorText(li)
        IN  IF HasNewsPrefix(li) /\ url \notin seen_urls /\ title # ""
            THEN /\ articles' = Append(articles, [title |-> title, url |-> url])
                 /\ seen_urls' = seen_urls \cup {url}
            ELSE /\ articles' = articles
                 /\ seen_urls' = seen_urls

C7_Inv ==
    /\ \A u \in seen_urls :
          \E j \in Processed : HasNewsPrefix(j) /\ AnchorUrl(j) = u
    /\ \A k \in 1..Len(articles) :
          \E j \in Processed : HasNewsPrefix(j) /\ AnchorUrl(j) = articles[k].url

\* C7: an anchor whose trimmed href starts with neither "/news" nor
\* "https://www.bbc.com/news" never produces a record and never enters
\* seen_urls; an href with one of the two prefixes passes the filter and then
\* yields a record unless its resolved url was already seen or its text is
\* empty.
C7_HrefFilter ==
    /\ []C7_Inv
    /\ [][C7_Step]_vars

C7_RejectedAndAccepted ==
    /\ pc = "PARSE_LOOP"
    /\ li = 4
    /\ Strip(links[1].href) = "/new"
    /\ Strip(links[2].href) = "https://evil.com/news"
    /\ Strip(links[3].href) = "https://www.bbc.com/news/a"
    /\ seen_urls = {"https://www.bbc.com/news/a"}
    /\ Len(articles) = 1

FourKeys == {"title", "url", "published", "summary"}
TwoKeys  == {"title", "url"}

C8_Step ==
    /\ (pc = "FEED_PARSED" /\ bozo) =>
          /\ pc' = "TRY_HTML"
          /\ feedRaised'
          /\ items' = <<>> /\ main_articles' = <<>> /\ stdout' = <<>>
    /\ pc' = "FATAL" => pc = "TRY_HTML" /\ homeGets' = homeGets + 1

C8_Inv ==
    bozo =>
        /\ pc # "FEED_LOOP"
        /\ items = <<>>
        /\ pc \in {"PARSE_LOOP", "OUTPUT", "FATAL"} => homeGets = 1
        /\ pc = "OUTPUT" =>
              /\ main_articles = articles
              /\ \A k \in 1..Len(Printed) : DOMAIN Printed[k] = TwoKeys

\* C8: whenever feedparser sets bozo, fetch_rss raises before it builds or
\* returns any record, even when the feed has well-formed entries; main
\* recovers through the HTML fallback, so the run fails only if the homepage
\* fetch fails, and no entry of the malformed feed is printed.
C8_MalformedFeedRaises ==
    /\ []C8_Inv
    /\ [][C8_Step]_vars

C8_RecoveredFromBozo ==
    /\ pc = "OUTPUT"
    /\ bozo /\ feedRaised
    /\ items = <<>>
    /\ Len(Printed) = 2

\* the entry has a title and a link that are not empty once trimmed
WellFormedEntry(e) ==
    /\ "title" \in DOMAIN e /\ Strip(e["title"]) # ""
    /\ "link" \in DOMAIN e /\ Strip(e["link"]) # ""

KeptEntries == SelectSeq(entries, WellFormedEntry)

\* C9: on a well-formed feed fetch_rss returns one record for each entry
\* whose trimmed title and trimmed link are both non-empty, in feed order and
\* without deduplication, so no returned record has an empty title or url.
C9_FeedRecords ==
    (pc = "OUTPUT" /\ ~feedRaised) =>
        /\ Len(main_articles) = Len(KeptEntries)
        /\ \A k \in 1..Len(main_articles) :
              /\ main_articles[k].title = Strip(KeptEntries[k]["title"])
              /\ main_articles[k].url = Strip(KeptEntries[k]["link"])
              /\ main_articles[k].title # ""
              /\ main_articles[k].url # ""

C9_DuplicateLinkAndSkip ==
    /\ pc = "OUTPUT" /\ ~feedRaised
    /\ Len(entries) = 3
    /\ Len(main_articles) = 2
    /\ main_articles[1].url = main_articles[2].url
    /\ main_articles[1].title # main_articles[2].title

\* C10: the printed records come from one source and share one shape: after
\* a successful feed attempt every record has the four keys title, url,
\* published, summary, the last two being "" when the entry lacks them; after
\* the fallback every record has exactly the keys title and url.
C10_OneShape ==
    pc = "OUTPUT" =>
        IF feedRaised
        THEN \A k \in 1..Len(Printed) : DOMAIN Printed[k] = TwoKeys
        ELSE /\ \A k \in 1..Len(Printed) : DOMAIN Printed[k] = FourKeys
             /\ \A k \in 1..Len(main_articles) :
                   /\ "published" \notin DOMAIN KeptEntries[k]
                         => main_articles[k].published = ""
                   /\ "summary" \notin DOMAIN KeptEntries[k]
                         => main_articles[k].summary = ""

C10_FallbackPrinted ==
    /\ pc = "OUTPUT" /\ feedRaised
    /\ Len(Printed) >= 2
    /\ \A k \in 1..Len(Printed) : DOMAIN Printed[k] = TwoKeys
====
